---- MODULE Spec2Model ----
(***************************************************************************)
(* R5: an interpreter for the RV64I base instruction set.                  *)
(*                                                                         *)
(* The model follows src/src/cpu.c (exec32 and the five immediate          *)
(* decoders), with the bus of src/src/bus.h as the only collaborator.      *)
(*                                                                         *)
(* Machine words.  TLC's integers are 32 bits wide, so a C unsigned word   *)
(* is modelled by the set of the positions of its 1 bits: a uint64_t is a  *)
(* subset of 0..63, a uint32_t a subset of 0..31.  With that, the C        *)
(* operators are: a & b is a \cap b, a | b is a \cup b, a constant such as *)
(* 0xfe0 is the interval 5..11, and a conversion to a narrower unsigned    *)
(* type keeps the positions below the width.  A signed value is the same   *)
(* set of bits read in two's complement.                                   *)
(***************************************************************************)
EXTENDS Integers, FiniteSets, Sequences, TLC

XLEN == 64

\* uint64_t and uint32_t
U64 == 0 .. 63
U32 == 0 .. 31

\* ------------------------------------------------------------------------
\* Words as sets of bit positions
\* ------------------------------------------------------------------------

Pow2(i) == 2 ^ i

\* The word holding the small natural number x (x < 2^31).
FromNat(x) == { i \in 0 .. 30 : (x \div Pow2(i)) % 2 = 1 }

\* The natural number held by a word that fits in 31 bits.
RECURSIVE ToNat(_)
ToNat(w) ==
    IF w = {} THEN 0
    ELSE LET i == CHOOSE j \in w : TRUE
         IN  Pow2(i) + ToNat(w \ {i})

\* w << k and w >> k on an unsigned type of n bits.
Shl(w, k, n) == { i + k : i \in w } \cap (0 .. n - 1)
Shr(w, k) == { i - k : i \in { j \in w : j >= k } }

\* >> on a signed type of n bits, as the compilers of this code base do it
\* (arithmetic: the sign bit is replicated).
Sar(w, k, n) ==
    Shr(w, k) \cup (IF (n - 1) \in w THEN { i \in 0 .. n - 1 : i + k >= n } ELSE {})

\* a ^ b and ~a on n bits.
Xor(a, b) == (a \ b) \cup (b \ a)
Not(a, n) == (0 .. n - 1) \ a

\* a + b + c modulo 2^n (n a multiple of 16), c the carry in (0 or 1): the
\* words are added 16 bits at a time, from bit 16 * k up, the carry handed on.
RECURSIVE AddFrom(_, _, _, _, _)
AddFrom(a, b, k, c, n) ==
    IF 16 * k >= n THEN {}
    ELSE LET chunk == (16 * k) .. (16 * k + 15)
             s == ToNat(Shr(a \cap chunk, 16 * k)) + ToNat(Shr(b \cap chunk, 16 * k)) + c
         IN  Shl(FromNat(s % 65536), 16 * k, n) \cup AddFrom(a, b, k + 1, s \div 65536, n)

Add(a, b, n) == AddFrom(a, b, 0, 0, n)
Sub(a, b, n) == AddFrom(a, Not(b, n), 0, 1, n)

\* a < b, both unsigned: the highest bit in which they differ is a bit of b.
ULt(a, b) == \E i \in b \ a : \A j \in a \ b : j < i

\* SLt with the conversion to the signed type left out.
SLtUncast(a, b, n) == ULt(a, b)

\* a < b, both signed on n bits.
SLt(a, b, n) ==
    IF ((n - 1) \in a) # ((n - 1) \in b) THEN (n - 1) \in a ELSE ULt(a, b)

\* Conversion of a value of a signed type of m bits to a wider type of n bits.
SignExtend(w, m, n) ==
    IF (m - 1) \in w THEN w \cup (m .. n - 1) ELSE w

\* Conversion to an unsigned type of n bits.
Truncate(w, n) == w \cap (0 .. n - 1)

\* `struct { signed int x: n; } s; s.x = v; return s.x;` with an int64_t
\* return type: the low n bits of v, read as a signed n-bit number.
SignedBitfield(v, n) == SignExtend(Truncate(v, n), n, XLEN)


\* ------------------------------------------------------------------------
\* cpu.c: opcodes and function codes
\* ------------------------------------------------------------------------

OP_LUI == 55        \* 0x37
OP_AUIPC == 23      \* 0x17
OP_JAL == 111       \* 0x6f
OP_JALR == 103      \* 0x67
OP_BRANCH == 99     \* 0x63
OP_LOAD == 3        \* 0x3
OP_STORE == 35      \* 0x23
OP_IMM == 19        \* 0x13
OP_IMM32 == 27      \* 0x1b
OP_OP == 51         \* 0x33
OP_OP32 == 59       \* 0x3b
OP_MISC_MEM == 15   \* 0xf
OP_SYSTEM == 115    \* 0x73

LOAD_FUNCT3_LB == 0
LOAD_FUNCT3_LH == 1
LOAD_FUNCT3_LW == 2
LOAD_FUNCT3_LBU == 4
LOAD_FUNCT3_LHU == 5
LOAD_FUNCT3_LWU == 6
LOAD_FUNCT3_LD == 3

STORE_FUNCT3_SB == 0
STORE_FUNCT3_SH == 1
STORE_FUNCT3_SW == 2
STORE_FUNCT3_SD == 3

BRANCH_FUNCT3_BEQ == 0
BRANCH_FUNCT3_BNE == 1
BRANCH_FUNCT3_BLT == 4
BRANCH_FUNCT3_BGE == 5
BRANCH_FUNCT3_BLTU == 6
BRANCH_FUNCT3_BGEU == 7

OP_IMM_FUNCT3_ADDI == 0
OP_IMM_FUNCT3_SLLI == 1
OP_IMM_FUNCT3_SLTI == 2
OP_IMM_FUNCT3_SLTIU == 3
OP_IMM_FUNCT3_XORI == 4
OP_IMM_FUNCT3_SRLI_SRAI == 5
OP_IMM_FUNCT3_ORI == 6
OP_IMM_FUNCT3_ANDI == 7

OP_IMM32_FUNCT3_ADDIW == 0
OP_IMM32_FUNCT3_SLLIW == 1
OP_IMM32_FUNCT3_SRLIW_SRAIW == 5

OP_FUNCT3_ADD_SUB == 0
OP_FUNCT3_SLL == 1
OP_FUNCT3_SLT == 2
OP_FUNCT3_SLTU == 3
OP_FUNCT3_XOR == 4
OP_FUNCT3_SRL_SRA == 5
OP_FUNCT3_OR == 6
OP_FUNCT3_AND == 7

OP32_FUNCT3_ADDW_SUBW == 0
OP32_FUNCT3_SLLW == 1
OP32_FUNCT3_SRLW_SRAW == 5

MISC_MEM_FUNCT3_FENCE == 0

SYSTEM_FUNCT3_ECALL_EBREAK == 0

\* ------------------------------------------------------------------------
\* cpu.c: address_misaligned and the immediate decoders
\* ------------------------------------------------------------------------

\* return addr & 0x3;   (converted to bool: any of the two bits set)
address_misaligned(addr) == (addr \cap (0 .. 1)) # {}

\* struct { signed int x: 12; } s;  s.x = insn >> 20;
decode_immediate_I(insn) == SignedBitfield(Shr(insn, 20), 12)

\* s.x = (insn & 0xf80) >> 7 | (insn & 0xfe000000) >> 20;   x: 12
decode_immediate_S(insn) ==
    SignedBitfield(Shr(insn \cap (7 .. 11), 7) \cup Shr(insn \cap (25 .. 31), 20), 12)

\* s.x = (insn & 0x80) << 4 | (insn & 0xf00) >> 7 | (insn & 0x7e000000) >> 20
\*       | (insn & 0x80000000) >> 19;   x: 13
decode_immediate_B(insn) ==
    SignedBitfield(Shl(insn \cap {7}, 4, 32) \cup Shr(insn \cap (8 .. 11), 7)
                     \cup Shr(insn \cap (25 .. 30), 20) \cup Shr(insn \cap {31}, 19),
                   13)

\* struct { signed int x: 20; } s;  s.x = insn & 0xfffff000;
decode_immediate_U(insn) == SignedBitfield(insn \cap (12 .. 31), 20)

\* s.x = (insn & 0xff000) | (insn & 0x100000) >> 9 | (insn & 0x7fe00000) >> 20
\*       | (insn & 0x80000000) >> 11;   x: 20
decode_immediate_J(insn) ==
    SignedBitfield((insn \cap (12 .. 19)) \cup Shr(insn \cap {20}, 9)
                     \cup Shr(insn \cap (21 .. 30), 20) \cup Shr(insn \cap {31}, 11),
                   20)

\* ------------------------------------------------------------------------
\* bus.h: the calls as declared.  mem is the 64-bit little-endian content
\* the bus holds at the address it is given; a call converts its argument
\* to the declared parameter type and its result to the declared return type.
\* Each call yields the transaction: what the bus saw and what came back.
\* ------------------------------------------------------------------------

NoBus == [op |-> "none", width |-> 0, addr |-> {}, value |-> {}]

\* What a call of exec32 reports to its caller: nothing.
NoException == [kind |-> "none", value |-> {}]

\* void store8(uint64_t addr, uint8_t value);
store8(addr, value) ==
    [op |-> "store", width |-> 8, addr |-> Truncate(addr, 64), value |-> Truncate(value, 8)]
\* void store16(uint64_t addr, uint16_t value);
store16(addr, value) ==
    [op |-> "store", width |-> 16, addr |-> Truncate(addr, 64), value |-> Truncate(value, 16)]
\* void store32(uint64_t addr, uint32_t value);
store32(addr, value) ==
    [op |-> "store", width |-> 32, addr |-> Truncate(addr, 64), value |-> Truncate(value, 32)]
\* void store64(uint64_t addr, uint32_t value);
store64(addr, value) ==
    [op |-> "store", width |-> 64, addr |-> Truncate(addr, 64), value |-> Truncate(value, 32)]

\* uint8_t load8(uint64_t addr);
load8(addr, mem) ==
    [op |-> "load", width |-> 8, addr |-> Truncate(addr, 64), value |-> Truncate(mem, 8)]
\* uint16_t load16(uint16_t addr);
load16(addr, mem) ==
    [op |-> "load", width |-> 16, addr |-> Truncate(addr, 16), value |-> Truncate(mem, 16)]
\* uint32_t load32(uint32_t addr);
load32(addr, mem) ==
    [op |-> "load", width |-> 32, addr |-> Truncate(addr, 32), value |-> Truncate(mem, 32)]
\* uint32_t load64(uint64_t addr);
load64(addr, mem) ==
    [op |-> "load", width |-> 64, addr |-> Truncate(addr, 64), value |-> Truncate(mem, 32)]


\* ------------------------------------------------------------------------
\* cpu.c: exec32, one operator per case of the switch on the opcode.
\*   cpu  the CPU structure [regs, pc], with pc_updated, the bus transaction
\*        of this call and what the call reports to its caller carried along;
\*   f    the fields decoded at the head of exec32;
\*   u    what the code does not determine: u.should_branch is the value
\*        of the uninitialised local should_branch, u.mem the content the
\*        bus holds at the address of a load.
\* ------------------------------------------------------------------------

\* int opcode = insn & 0x7f, rd = (insn >> 7) & 0x1f, funct3 = (insn >> 12) & 0x7,
\*     rs1 = (insn >> 15) & 0x1f, rs2 = (insn >> 20) & 0x1f, funct7 = insn >> 25;
Fields(insn) ==
    [opcode |-> ToNat(insn \cap (0 .. 6)),
     rd     |-> ToNat(Shr(insn, 7) \cap (0 .. 4)),
     funct3 |-> ToNat(Shr(insn, 12) \cap (0 .. 2)),
     rs1    |-> ToNat(Shr(insn, 15) \cap (0 .. 4)),
     rs2    |-> ToNat(Shr(insn, 20) \cap (0 .. 4)),
     funct7 |-> ToNat(Shr(insn, 25))]

\* WriteRd with the wrong index: the source register in place of rd.
WriteRs1(cpu, f, value) == [cpu EXCEPT !.regs[f.rs1] = value]

\* cpu->regs[rd] = value;
WriteRd(cpu, f, value) == [cpu EXCEPT !.regs[f.rd] = value]

\* Jump with pc_updated left false.
JumpFlagMissing(cpu, target) == [cpu EXCEPT !.pc = target]

\* cpu->pc = target; pc_updated = true;
Jump(cpu, target) == [cpu EXCEPT !.pc = target, !.pc_updated = TRUE]

case_OP_LUI(cpu, f, insn) == WriteRd(cpu, f, decode_immediate_U(insn))

case_OP_AUIPC(cpu, f, insn) ==
    WriteRd(cpu, f, Add(decode_immediate_U(insn), cpu.pc, 64))

case_OP_JAL(cpu, f, insn) ==
    LET target == Add(cpu.pc, decode_immediate_J(insn), 64)
    IN  IF address_misaligned(target)
        THEN cpu    \* TODO: instruction misaligned
        ELSE Jump(WriteRd(cpu, f, Add(cpu.pc, FromNat(4), 64)), target)

case_OP_JALR(cpu, f, insn) ==
    LET target == Add(cpu.pc, decode_immediate_I(insn), 64) \cap Not(FromNat(1), 64)
    IN  IF address_misaligned(target)
        THEN cpu    \* TODO: instruction misaligned
        ELSE Jump(WriteRd(cpu, f, Add(cpu.pc, FromNat(4), 64)), target)

case_OP_BRANCH(cpu, f, insn, u) ==
    LET a == cpu.regs[f.rs1]
        b == cpu.regs[f.rs2]
        should_branch ==
            CASE f.funct3 = BRANCH_FUNCT3_BEQ  -> a = b
              [] f.funct3 = BRANCH_FUNCT3_BNE  -> a # b
              [] f.funct3 = BRANCH_FUNCT3_BLT  -> SLt(a, b, 64)
              [] f.funct3 = BRANCH_FUNCT3_BGE  -> ~SLt(a, b, 64)
              [] f.funct3 = BRANCH_FUNCT3_BLTU -> ULt(a, b)
              [] f.funct3 = BRANCH_FUNCT3_BGEU -> ~ULt(a, b)
              [] OTHER -> u.should_branch    \* TODO: illegal instruction
        target == Add(cpu.pc, decode_immediate_B(insn), 64)
    IN  IF should_branch
        THEN IF address_misaligned(target)
             THEN cpu    \* TODO: instruction misaligned
             ELSE Jump(cpu, target)
        ELSE cpu

case_OP_LOAD(cpu, f, insn, u) ==
    LET target == Add(cpu.regs[f.rs1], decode_immediate_I(insn), 64)
        Loaded(t, value) == [WriteRd(cpu, f, value) EXCEPT !.bus = t]
        t8  == load8(target, u.mem)
        t16 == load16(target, u.mem)
        t32 == load32(target, u.mem)
        t64 == load64(target, u.mem)
    IN  CASE f.funct3 = LOAD_FUNCT3_LB  -> Loaded(t8, SignExtend(t8.value, 8, 64))
          [] f.funct3 = LOAD_FUNCT3_LH  -> Loaded(t16, SignExtend(t16.value, 16, 64))
          [] f.funct3 = LOAD_FUNCT3_LW  -> Loaded(t32, SignExtend(t32.value, 32, 64))
          [] f.funct3 = LOAD_FUNCT3_LBU -> Loaded(t8, t8.value)
          [] f.funct3 = LOAD_FUNCT3_LHU -> Loaded(t16, t16.value)
          [] f.funct3 = LOAD_FUNCT3_LWU -> Loaded(t32, t32.value)
          [] f.funct3 = LOAD_FUNCT3_LD  -> Loaded(t64, t64.value)
          [] OTHER -> cpu    \* TODO: illegal instruction

case_OP_STORE(cpu, f, insn) ==
    LET target == Add(cpu.regs[f.rs1], decode_immediate_S(insn), 64)
        value == cpu.regs[f.rs2]
    IN  CASE f.funct3 = STORE_FUNCT3_SB -> [cpu EXCEPT !.bus = store8(target, value)]
          [] f.funct3 = STORE_FUNCT3_SH -> [cpu EXCEPT !.bus = store16(target, value)]
          [] f.funct3 = STORE_FUNCT3_SW -> [cpu EXCEPT !.bus = store32(target, value)]
          [] f.funct3 = STORE_FUNCT3_SD -> [cpu EXCEPT !.bus = store64(target, value)]
          [] OTHER -> cpu    \* TODO: illegal instruction

\* The value of a C comparison: 1 or 0.
Bool(p) == IF p THEN FromNat(1) ELSE {}

case_OP_IMM(cpu, f, insn) ==
    LET imm == decode_immediate_I(insn)
        a == cpu.regs[f.rs1]
        shift == ToNat(imm \cap (0 .. 5))          \* imm & 0x3f
        shift_type == ToNat(imm \cap (6 .. 11))    \* imm & 0xfc0
    IN  CASE f.funct3 = OP_IMM_FUNCT3_ADDI  -> WriteRd(cpu, f, Add(a, imm, 64))
          [] f.funct3 = OP_IMM_FUNCT3_SLTI  -> WriteRd(cpu, f, Bool(SLt(a, imm, 64)))
          [] f.funct3 = OP_IMM_FUNCT3_SLTIU -> WriteRd(cpu, f, Bool(ULt(a, imm)))
          [] f.funct3 = OP_IMM_FUNCT3_XORI  -> WriteRd(cpu, f, Xor(a, imm))
          [] f.funct3 = OP_IMM_FUNCT3_ORI   -> WriteRd(cpu, f, a \cup imm)
          [] f.funct3 = OP_IMM_FUNCT3_ANDI  -> WriteRd(cpu, f, a \cap imm)
          [] f.funct3 = OP_IMM_FUNCT3_SLLI  ->
                IF shift_type = 0
                THEN WriteRd(cpu, f, Shl(a, shift, 64))
                ELSE cpu    \* TODO: illegal instruction
          [] f.funct3 = OP_IMM_FUNCT3_SRLI_SRAI ->
                IF shift_type = 0
                THEN WriteRd(cpu, f, Shr(a, shift))
                ELSE IF shift_type = 16    \* 0x10
                THEN WriteRd(cpu, f, Sar(a, shift, 64))
                ELSE cpu    \* TODO: illegal instruction

case_OP_OP(cpu, f, insn) ==
    LET a == cpu.regs[f.rs1]
        b == cpu.regs[f.rs2]
        shift == ToNat(b \cap (0 .. 5))    \* cpu->regs[rs2] & 0x3f
        Only0(value) == IF f.funct7 = 0
                        THEN WriteRd(cpu, f, value)
                        ELSE cpu    \* TODO: illegal instruction
    IN  CASE f.funct3 = OP_FUNCT3_ADD_SUB ->
                IF f.funct7 = 0 THEN WriteRd(cpu, f, Add(a, b, 64))
                ELSE IF f.funct7 = 32 THEN WriteRd(cpu, f, Sub(a, b, 64))
                ELSE cpu    \* TODO: illegal instruction
          [] f.funct3 = OP_FUNCT3_SLL  -> Only0(Shl(a, shift, 64))
          [] f.funct3 = OP_FUNCT3_SLT  -> Only0(Bool(SLt(a, b, 64)))
          [] f.funct3 = OP_FUNCT3_SLTU -> Only0(Bool(ULt(a, b)))
          [] f.funct3 = OP_FUNCT3_XOR  -> Only0(Xor(a, b))
          [] f.funct3 = OP_FUNCT3_SRL_SRA ->
                IF f.funct7 = 0 THEN WriteRd(cpu, f, Shr(a, shift))
                ELSE IF f.funct7 = 32 THEN WriteRd(cpu, f, Shr(a, shift))
                ELSE cpu    \* TODO: illegal instruction
          [] f.funct3 = OP_FUNCT3_OR   -> Only0(a \cup b)
          [] f.funct3 = OP_FUNCT3_AND  -> Only0(a \cap b)

\* Int32 with the conversion to int32_t left out: the value is zero-extended.
Int32Uncast(v) == Truncate(v, 32)

\* (int32_t)v assigned to a uint64_t register: sign extension of 32 bits.
Int32(v) == SignExtend(Truncate(v, 32), 32, 64)

case_OP_IMM32(cpu, f, insn) ==
    LET imm32 == Truncate(decode_immediate_I(insn), 32)
        a32 == Truncate(cpu.regs[f.rs1], 32)       \* (uint32_t)cpu->regs[rs1]
        shift == ToNat(imm32 \cap (0 .. 4))        \* imm32 & 0x1f
        shift_type == ToNat(imm32 \cap (5 .. 11))  \* imm32 & 0xfe0
    IN  CASE f.funct3 = OP_IMM32_FUNCT3_ADDIW -> WriteRd(cpu, f, Int32(Add(a32, imm32, 32)))
          [] f.funct3 = OP_IMM32_FUNCT3_SLLIW ->
                IF shift_type = 0
                THEN WriteRd(cpu, f, Int32(Shl(a32, shift, 32)))
                ELSE cpu    \* TODO: illegal instruction
          [] f.funct3 = OP_IMM32_FUNCT3_SRLIW_SRAIW ->
                IF shift_type = 0
                THEN WriteRd(cpu, f, Int32(Shr(a32, shift)))
                ELSE IF shift_type = 32    \* 0x20
                THEN WriteRd(cpu, f, Int32(Sar(a32, shift, 32)))
                ELSE cpu    \* TODO: illegal instruction
          [] OTHER -> cpu    \* TODO: illegal instruction

case_OP_OP32(cpu, f, insn) ==
    LET a32 == Truncate(cpu.regs[f.rs1], 32)
        b32 == Truncate(cpu.regs[f.rs2], 32)
        shift == ToNat(cpu.regs[f.rs2] \cap (0 .. 4))    \* cpu->regs[rs2] & 0x1f
    IN  CASE f.funct3 = OP32_FUNCT3_ADDW_SUBW ->
                IF f.funct7 = 0 THEN WriteRd(cpu, f, Int32(Add(a32, b32, 32)))
                ELSE IF f.funct7 = 32 THEN WriteRd(cpu, f, Int32(Sub(a32, b32, 32)))
                ELSE cpu    \* TODO: illegal instruction
          [] f.funct3 = OP32_FUNCT3_SLLW ->
                IF f.funct7 = 0 THEN WriteRd(cpu, f, Int32(Shl(a32, shift, 32)))
                ELSE cpu    \* TODO: illegal instruction
          [] f.funct3 = OP32_FUNCT3_SRLW_SRAW ->
                IF f.funct7 = 0 THEN WriteRd(cpu, f, Int32(Shr(a32, shift)))
                ELSE IF f.funct7 = 32 THEN WriteRd(cpu, f, Int32(Sar(a32, shift, 32)))
                ELSE cpu    \* TODO: illegal instruction
          [] OTHER -> cpu    \* TODO: illegal instruction

\* FENCE is a no-op; every other funct3: TODO: illegal instruction.
case_OP_MISC_MEM(cpu, f, insn) == cpu

\* Both branches of the switch on funct3 are empty.
case_OP_SYSTEM(cpu, f, insn) == cpu

\* switch(opcode) { ... }
Dispatch(cpu, f, insn, u) ==
    CASE f.opcode = OP_LUI      -> case_OP_LUI(cpu, f, insn)
      [] f.opcode = OP_AUIPC    -> case_OP_AUIPC(cpu, f, insn)
      [] f.opcode = OP_JAL      -> case_OP_JAL(cpu, f, insn)
      [] f.opcode = OP_JALR     -> case_OP_JALR(cpu, f, insn)
      [] f.opcode = OP_BRANCH   -> case_OP_BRANCH(cpu, f, insn, u)
      [] f.opcode = OP_LOAD     -> case_OP_LOAD(cpu, f, insn, u)
      [] f.opcode = OP_STORE    -> case_OP_STORE(cpu, f, insn)
      [] f.opcode = OP_IMM      -> case_OP_IMM(cpu, f, insn)
      [] f.opcode = OP_OP       -> case_OP_OP(cpu, f, insn)
      [] f.opcode = OP_IMM32    -> case_OP_IMM32(cpu, f, insn)
      [] f.opcode = OP_OP32     -> case_OP_OP32(cpu, f, insn)
      [] f.opcode = OP_MISC_MEM -> case_OP_MISC_MEM(cpu, f, insn)
      [] f.opcode = OP_SYSTEM   -> case_OP_SYSTEM(cpu, f, insn)
      [] OTHER -> cpu    \* TODO: illegal instruction

\* AdvancePc with the test of pc_updated inverted.
AdvancePcInverted(cpu) ==
    IF cpu.pc_updated THEN [cpu EXCEPT !.pc = Add(cpu.pc, FromNat(4), 64)] ELSE cpu

\* if(!pc_updated) { cpu->pc += 4; }
AdvancePc(cpu) ==
    IF cpu.pc_updated THEN cpu ELSE [cpu EXCEPT !.pc = Add(cpu.pc, FromNat(4), 64)]

\* ZeroX0 with the assignment left out.
ZeroX0Missing(cpu) == cpu

\* /* x0 must always be zero */  cpu->regs[0] = 0;
ZeroX0(cpu) == [cpu EXCEPT !.regs[0] = {}]

\* void exec32(uint32_t insn, CPU *cpu): the CPU after the call, with the
\* bus transaction the call made.
\* The function is void and no path of it records a fault: where one is due
\* the code holds a TODO comment and a break, so raised stays NoException.
exec32(insn, cpu0, u) ==
    LET cpu == [regs |-> cpu0.regs, pc |-> cpu0.pc, pc_updated |-> FALSE, bus |-> NoBus,
                raised |-> NoException]
    IN  ZeroX0(AdvancePc(Dispatch(cpu, Fields(insn), insn, u)))


\* ------------------------------------------------------------------------
\* r5.c: exec, the executor of that file (LUI, AUIPC, JAL, JALR, BRANCH,
\* OP-IMM and OP).  Its decoders and its cases for LUI and AUIPC are, line
\* for line, those of cpu.c; its alignment test and its shifts are its own.
\* ------------------------------------------------------------------------

\* #define INSN_ALIGN_MASK 0x3
INSN_ALIGN_MASK == 3

\* target & INSN_ALIGN_MASK != 0: != binds tighter than &, so this is
\* target & (INSN_ALIGN_MASK != 0), the bit 0 of target.
r5_misaligned(target) ==
    (target \cap Bool(FromNat(INSN_ALIGN_MASK) # {})) # {}

\* int64_t value_signed = value;
\* return value_signed < 0 ? ~(~value_signed >> shift) : value_signed >> shift;
arithmetic_shift_right(value, shift) ==
    IF 63 \in value THEN Not(Shr(Not(value, 64), shift), 64) ELSE Shr(value, shift)

r5_case_OP_JAL(cpu, f, insn) ==
    LET target == Add(cpu.pc, decode_immediate_J(insn), 64)
    IN  IF r5_misaligned(target)
        THEN cpu    \* TODO: instruction misaligned
        ELSE Jump(WriteRd(cpu, f, Add(cpu.pc, FromNat(4), 64)), target)

r5_case_OP_JALR(cpu, f, insn) ==
    LET target == Add(cpu.pc, decode_immediate_I(insn), 64) \cap Not(FromNat(1), 64)
    IN  IF r5_misaligned(target)
        THEN cpu    \* TODO: instruction misaligned
        ELSE Jump(WriteRd(cpu, f, Add(cpu.pc, FromNat(4), 64)), target)

\* The switch on funct3 has no default: should_branch is unset for 2 and 3.
r5_case_OP_BRANCH(cpu, f, insn, u) ==
    LET a == cpu.regs[f.rs1]
        b == cpu.regs[f.rs2]
        should_branch ==
            CASE f.funct3 = BRANCH_FUNCT3_BEQ  -> a = b
              [] f.funct3 = BRANCH_FUNCT3_BNE  -> a # b
              [] f.funct3 = BRANCH_FUNCT3_BLT  -> SLt(a, b, 64)
              [] f.funct3 = BRANCH_FUNCT3_BGE  -> ~SLt(a, b, 64)
              [] f.funct3 = BRANCH_FUNCT3_BLTU -> ULt(a, b)
              [] f.funct3 = BRANCH_FUNCT3_BGEU -> ~ULt(a, b)
              [] OTHER -> u.should_branch
        target == Add(cpu.pc, decode_immediate_B(insn), 64)
    IN  IF should_branch
        THEN IF r5_misaligned(target)
             THEN cpu    \* TODO: instruction misaligned
             ELSE Jump(cpu, target)
        ELSE cpu

r5_case_OP_IMM(cpu, f, insn) ==
    LET imm == decode_immediate_I(insn)
        a == cpu.regs[f.rs1]
        shift == ToNat(imm \cap (0 .. 5))         \* imm & 0x3f
        shiftType == ToNat(imm \cap (6 .. 11))    \* imm & 0xfc0
    IN  CASE f.funct3 = OP_IMM_FUNCT3_ADDI  -> WriteRd(cpu, f, Add(a, imm, 64))
          [] f.funct3 = OP_IMM_FUNCT3_SLTI  -> WriteRd(cpu, f, Bool(SLt(a, imm, 64)))
          [] f.funct3 = OP_IMM_FUNCT3_SLTIU -> WriteRd(cpu, f, Bool(ULt(a, imm)))
          [] f.funct3 = OP_IMM_FUNCT3_XORI  -> WriteRd(cpu, f, Xor(a, imm))
          [] f.funct3 = OP_IMM_FUNCT3_ORI   -> WriteRd(cpu, f, a \cup imm)
          [] f.funct3 = OP_IMM_FUNCT3_ANDI  -> WriteRd(cpu, f, a \cap imm)
          [] f.funct3 = OP_IMM_FUNCT3_SLLI  ->
                IF shiftType = 0
                THEN WriteRd(cpu, f, Shl(a, shift, 64))
                ELSE cpu    \* TODO: illegal instruction
          [] f.funct3 = OP_IMM_FUNCT3_SRLI_SRAI ->
                IF shiftType = 0
                THEN WriteRd(cpu, f, Shr(a, shift))
                ELSE IF shiftType = 16    \* 0x10
                THEN WriteRd(cpu, f, arithmetic_shift_right(a, shift))
                ELSE cpu    \* TODO: illegal instruction

r5_case_OP_OP(cpu, f, insn) ==
    LET a == cpu.regs[f.rs1]
        b == cpu.regs[f.rs2]
        shift == ToNat(b \cap (0 .. 5))    \* cpu->regs[rs2] & 0x3f
        Only0(value) == IF f.funct7 = 0
                        THEN WriteRd(cpu, f, value)
                        ELSE cpu    \* TODO: illegal instruction
    IN  CASE f.funct3 = OP_FUNCT3_ADD_SUB ->
                IF f.funct7 = 0 THEN WriteRd(cpu, f, Add(a, b, 64))
                ELSE IF f.funct7 = 32 THEN WriteRd(cpu, f, Sub(a, b, 64))
                ELSE cpu    \* TODO: illegal instruction
          [] f.funct3 = OP_FUNCT3_SLL  -> Only0(Shl(a, shift, 64))
          [] f.funct3 = OP_FUNCT3_SLT  -> Only0(Bool(SLt(a, b, 64)))
          [] f.funct3 = OP_FUNCT3_SLTU -> Only0(Bool(ULt(a, b)))
          [] f.funct3 = OP_FUNCT3_XOR  -> Only0(Xor(a, b))
          [] f.funct3 = OP_FUNCT3_SRL_SRA ->
                IF f.funct7 = 0 THEN WriteRd(cpu, f, Shr(a, shift))
                ELSE IF f.funct7 = 16    \* 0x10
                THEN WriteRd(cpu, f, arithmetic_shift_right(a, shift))
                ELSE cpu    \* TODO: illegal instruction
          [] f.funct3 = OP_FUNCT3_OR   -> Only0(a \cup b)
          [] f.funct3 = OP_FUNCT3_AND  -> Only0(a \cap b)

\* switch(opcode) { ... }: no default, every other opcode does nothing.
r5_Dispatch(cpu, f, insn, u) ==
    CASE f.opcode = OP_LUI    -> case_OP_LUI(cpu, f, insn)
      [] f.opcode = OP_AUIPC  -> case_OP_AUIPC(cpu, f, insn)
      [] f.opcode = OP_JAL    -> r5_case_OP_JAL(cpu, f, insn)
      [] f.opcode = OP_JALR   -> r5_case_OP_JALR(cpu, f, insn)
      [] f.opcode = OP_BRANCH -> r5_case_OP_BRANCH(cpu, f, insn, u)
      [] f.opcode = OP_IMM    -> r5_case_OP_IMM(cpu, f, insn)
      [] f.opcode = OP_OP     -> r5_case_OP_OP(cpu, f, insn)
      [] OTHER -> cpu

\* void exec(uint32_t insn, CPU *cpu), closing with
\* cpu->regs[0] = 0; if(!pc_updated) { cpu->pc += 4; }
r5_exec(insn, cpu0, u) ==
    LET cpu == [regs |-> cpu0.regs, pc |-> cpu0.pc, pc_updated |-> FALSE, bus |-> NoBus,
                raised |-> NoException]
    IN  AdvancePc(ZeroX0(r5_Dispatch(cpu, Fields(insn), insn, u)))

\* ------------------------------------------------------------------------
\* State
\* ------------------------------------------------------------------------

VARIABLES
    regs,     \* CPU.regs: uint64_t regs[32]
    pc,       \* CPU.pc
    insn,     \* the instruction word of the last call
    prev,     \* the CPU structure as the last call found it
    bus,      \* the bus transaction of the last call
    undet,    \* what the last call found in should_branch and on the bus
    raised,   \* what the last call reported to its caller
    calls,    \* the number of calls made
    dec       \* a run of the immediate decoders: the value, its encoding, the result

cpuvars == <<regs, pc, insn, prev, bus, undet, raised, calls>>
vars == <<cpuvars, dec>>

\* The number of calls a run makes.
MaxCalls == 2

\* ------------------------------------------------------------------------
\* Instruction words: the encodings of the RV64I formats
\* ------------------------------------------------------------------------

Field(x, at) == Shl(FromNat(x), at, 32)

\* -n as a 64-bit word.
Minus(n) == Sub({}, FromNat(n), 64)

EncR(opcode, rd, funct3, rs1, rs2, funct7) ==
    Field(opcode, 0) \cup Field(rd, 7) \cup Field(funct3, 12) \cup Field(rs1, 15)
        \cup Field(rs2, 20) \cup Field(funct7, 25)

\* imm[11:0] at insn[31:20]
EncI(opcode, rd, funct3, rs1, imm) ==
    Field(opcode, 0) \cup Field(rd, 7) \cup Field(funct3, 12) \cup Field(rs1, 15)
        \cup Shl(imm \cap (0 .. 11), 20, 32)

\* imm[11:5] at insn[31:25], imm[4:0] at insn[11:7]
EncS(opcode, funct3, rs1, rs2, imm) ==
    Field(opcode, 0) \cup Field(funct3, 12) \cup Field(rs1, 15) \cup Field(rs2, 20)
        \cup Shl(imm \cap (0 .. 4), 7, 32) \cup Shl(imm \cap (5 .. 11), 20, 32)

\* imm[12] at insn[31], imm[10:5] at insn[30:25], imm[4:1] at insn[11:8],
\* imm[11] at insn[7]
EncB(opcode, funct3, rs1, rs2, imm) ==
    Field(opcode, 0) \cup Field(funct3, 12) \cup Field(rs1, 15) \cup Field(rs2, 20)
        \cup Shl(imm \cap {12}, 19, 32) \cup Shl(imm \cap (5 .. 10), 20, 32)
        \cup Shl(imm \cap (1 .. 4), 7, 32) \cup Shr(imm \cap {11}, 4)

\* imm[31:12] at insn[31:12]
EncU(opcode, rd, imm) ==
    Field(opcode, 0) \cup Field(rd, 7) \cup (imm \cap (12 .. 31))

\* imm[20] at insn[31], imm[10:1] at insn[30:21], imm[11] at insn[20],
\* imm[19:12] at insn[19:12]
EncJ(opcode, rd, imm) ==
    Field(opcode, 0) \cup Field(rd, 7) \cup Shl(imm \cap {20}, 11, 32)
        \cup Shl(imm \cap (1 .. 10), 20, 32) \cup Shl(imm \cap {11}, 9, 32)
        \cup (imm \cap (12 .. 19))


\* ------------------------------------------------------------------------
\* The instruction words and hart states the runs draw from
\* ------------------------------------------------------------------------

LuiInsns ==
    { EncU(op, rd, imm) : op \in {OP_LUI, OP_AUIPC}, rd \in {0, 2},
                          imm \in { Field(703710, 12),      \* 0xABCDE000
                                    Field(1, 12) } }        \* 0x00001000

JalInsns ==
    { EncJ(OP_JAL, rd, imm) : rd \in {0, 1},
                              imm \in { FromNat(8), FromNat(2), Minus(4),
                                        FromNat(524288),    \* +2^19
                                        Minus(1048576) } }  \* -2^20

JalrInsns ==
    { EncI(OP_JALR, rd, 0, 1, imm) : rd \in {1, 3},
                                     imm \in { {}, FromNat(3), FromNat(5), Minus(4) } }
        \cup { EncI(OP_JALR, 3, 1, 1, {}) }

BranchInsns ==
    { EncB(OP_BRANCH, funct3, 1, 2, imm) : funct3 \in 0 .. 7,
                                           imm \in { FromNat(16), FromNat(2), Minus(8) } }
        \cup { EncB(OP_BRANCH, BRANCH_FUNCT3_BEQ, 0, 0, FromNat(16)) }

LoadInsns ==
    { EncI(OP_LOAD, 3, funct3, 1, FromNat(8)) : funct3 \in 0 .. 7 }
        \cup { EncI(OP_LOAD, 0, LOAD_FUNCT3_LD, 1, Minus(8)) }

StoreInsns ==
    { EncS(OP_STORE, funct3, 1, 2, FromNat(40)) : funct3 \in 0 .. 4 }
        \cup { EncS(OP_STORE, STORE_FUNCT3_SD, 1, 2, Minus(8)) }

OpImmInsns ==
    { EncI(OP_IMM, 3, funct3, 1, imm) : funct3 \in {0, 2, 3, 4, 6, 7},
                                        imm \in { Minus(1), FromNat(5) } }
        \cup { EncI(OP_IMM, rd, OP_IMM_FUNCT3_ADDI, 0, Minus(1)) : rd \in {0, 1} }
        \cup { EncI(OP_IMM, 3, funct3, 1, FromNat(imm)) :
                  funct3 \in {OP_IMM_FUNCT3_SLLI, OP_IMM_FUNCT3_SRLI_SRAI},
                  imm \in { 4, 36,        \* shamt 4 and 36
                            1028,         \* 0x404: insn[31:26] = 010000, shamt 4
                            2052,         \* 0x804: insn[31:26] = 100000
                            80 } }        \* 0x050: imm & 0x10 set, shamt 16

OpInsns ==
    { EncR(OP_OP, 3, funct3, 1, 2, funct7) : funct3 \in 0 .. 7, funct7 \in {0, 32, 1} }
        \cup { EncR(OP_OP, 1, OP_FUNCT3_ADD_SUB, 1, 1, 0),
               EncR(OP_OP, 0, OP_FUNCT3_OR, 1, 2, 0) }

OpImm32Insns ==
    { EncI(OP_IMM32, 3, OP_IMM32_FUNCT3_ADDIW, 1, imm) : imm \in { {}, Minus(1), FromNat(1) } }
        \cup { EncI(OP_IMM32, 3, funct3, 1, FromNat(imm)) :
                  funct3 \in {OP_IMM32_FUNCT3_SLLIW, OP_IMM32_FUNCT3_SRLIW_SRAIW},
                  imm \in { 4,
                            1028,         \* 0x404: insn[31:25] = 0100000, shamt 4
                            36 } }        \* 0x024: insn[31:25] = 0000001, shamt 4
        \cup { EncI(OP_IMM32, 3, 2, 1, FromNat(4)) }

Op32Insns ==
    { EncR(OP_OP32, 3, funct3, 1, 2, funct7) : funct3 \in {0, 1, 5, 2}, funct7 \in {0, 32, 1} }

MiscInsns ==
    { EncI(OP_MISC_MEM, 0, funct3, 0, {}) : funct3 \in {0, 1} }
        \cup { EncI(OP_SYSTEM, 0, 0, 0, FromNat(imm)) : imm \in 0 .. 2 }
        \cup { EncI(OP_SYSTEM, 3, 1, 1, {}) }
        \cup { FromNat(11),               \* 0x0000000B: no such opcode
               EncR(11, 3, 0, 1, 2, 0) }

Insns ==
    LuiInsns \cup JalInsns \cup JalrInsns \cup BranchInsns \cup LoadInsns \cup StoreInsns
        \cup OpImmInsns \cup OpInsns \cup OpImm32Insns \cup Op32Insns \cup MiscInsns

\* The register contents a run starts from: x0, x1, x2 (the others are 0).
\* The driver creates the hart with every register 0; exec32 itself takes any
\* CPU structure, also one whose regs[0] is not 0.
RegFiles ==
    { <<{}, {}, {}>>,
      <<{}, 4 .. 63, FromNat(4)>>,             \* x1 = 0xFFFFFFFFFFFFFFF0
      <<{}, 0 .. 30, FromNat(1)>>,             \* x1 = 0x000000007FFFFFFF
      <<{}, FromNat(8192), FromNat(8192)>>,    \* x1 = x2 = 0x2000
      <<FromNat(5), {63} \cup {31}, 0 .. 63>> }  \* x0 = 5, x1 = 0x8000000080000000, x2 = -1

\* The entry addresses: 4-byte aligned.
EntryPcs == { FromNat(4096), 2 .. 63 }         \* 0x1000 and 0xFFFFFFFFFFFFFFFC

\* What the bus may hold at the address of a load.
BusContents == { {7} \cup {15} \cup {31} \cup {63},    \* 0x8000000080008080
                 0 .. 62 }                              \* 0x7FFFFFFFFFFFFFFF

NoUndet == [should_branch |-> FALSE, mem |-> {}]

NoDec == [fmt |-> "none", v |-> {}, word |-> {}, out |-> {}, stage |-> "none"]

\* ------------------------------------------------------------------------
\* The runs of exec32
\* ------------------------------------------------------------------------

Init ==
    /\ \E r \in RegFiles :
          regs = [i \in 0 .. 31 |-> IF i = 0 THEN r[1] ELSE IF i = 1 THEN r[2]
                                    ELSE IF i = 2 THEN r[3] ELSE {}]
    /\ pc \in EntryPcs
    /\ insn = {}
    /\ prev = [regs |-> regs, pc |-> pc]
    /\ bus = NoBus
    /\ undet = NoUndet
    /\ raised = NoException
    /\ calls = 0
    /\ dec = NoDec

\* The choices exec32 leaves open on word i: the value of should_branch where
\* the switch on funct3 leaves it unset, the content of the bus for a load.
Undets(i) ==
    LET f == Fields(i)
    IN  { [should_branch |-> sb, mem |-> m] :
            sb \in (IF f.opcode = OP_BRANCH /\ f.funct3 \in {2, 3} THEN BOOLEAN ELSE {FALSE}),
            m \in (IF f.opcode = OP_LOAD THEN BusContents ELSE {{}}) }

\* The driver calls exec32(i, &cpu).
Step ==
    /\ calls < MaxCalls
    /\ \E i \in Insns : \E u \in Undets(i) :
          \E cpu \in {exec32(i, [regs |-> regs, pc |-> pc], u)} :
              /\ regs' = cpu.regs
              /\ pc' = cpu.pc
              /\ bus' = cpu.bus
              /\ raised' = cpu.raised
              /\ insn' = i
              /\ undet' = u
              /\ prev' = [regs |-> regs, pc |-> pc]
    /\ calls' = calls + 1
    /\ UNCHANGED dec

Next == Step

Spec == Init /\ [][Next]_vars


\* ------------------------------------------------------------------------
\* The runs of r5.c's exec
\* ------------------------------------------------------------------------

\* The driver calls exec(i, &cpu).
StepR5 ==
    /\ calls < MaxCalls
    /\ \E i \in Insns : \E u \in Undets(i) :
          \E cpu \in {r5_exec(i, [regs |-> regs, pc |-> pc], u)} :
              /\ regs' = cpu.regs
              /\ pc' = cpu.pc
              /\ bus' = cpu.bus
              /\ raised' = cpu.raised
              /\ insn' = i
              /\ undet' = u
              /\ prev' = [regs |-> regs, pc |-> pc]
    /\ calls' = calls + 1
    /\ UNCHANGED dec

NextR5 == StepR5

SpecR5 == Init /\ [][NextR5]_vars

\* ------------------------------------------------------------------------
\* The runs of the immediate decoders: a value v representable in a format
\* is put into the immediate bits of a word, and the word is decoded.
\* ------------------------------------------------------------------------

\* The values a run draws from, per format, as sign-extended 64-bit words.
Representable(fmt) ==
    CASE fmt \in {"I", "S"} ->
            { {}, FromNat(1), Minus(1), FromNat(2047), Minus(2048), FromNat(1365),
              Minus(1366) }
      [] fmt = "B" ->
            { {}, FromNat(2), Minus(2), FromNat(16), FromNat(2048), FromNat(4094),
              Minus(4096) }
      [] fmt = "U" ->
            { {}, FromNat(4096), FromNat(524288),      \* 0x1000, 0x80000
              FromNat(305418240),                     \* 0x12345000
              12 .. 30,                               \* 0x7FFFF000
              12 .. 63,                               \* -0x1000
              31 .. 63,                               \* -0x80000000
              SignExtend(Field(703710, 12), 32, 64) } \* 0xFFFFFFFFABCDE000
      [] fmt = "J" ->
            { {}, FromNat(2), Minus(2), FromNat(8), Minus(4), FromNat(2048),
              FromNat(524288),                        \* 2^19
              FromNat(1048574),                       \* 2^20 - 2
              Minus(1048576) }                        \* -2^20

\* v in the immediate bits of a word of format fmt, every other field of the
\* word filled with 0 bits (ones = 0) or with 1 bits (ones = 1).
Encode(fmt, v, ones) ==
    CASE fmt = "I" -> EncI(127 * ones, 31 * ones, 7 * ones, 31 * ones, v)
      [] fmt = "S" -> EncS(127 * ones, 7 * ones, 31 * ones, 31 * ones, v)
      [] fmt = "B" -> EncB(127 * ones, 7 * ones, 31 * ones, 31 * ones, v)
      [] fmt = "U" -> EncU(127 * ones, 31 * ones, v)
      [] fmt = "J" -> EncJ(127 * ones, 31 * ones, v)

\* decode_immediate_F(word)
Decode(fmt, word) ==
    CASE fmt = "I" -> decode_immediate_I(word)
      [] fmt = "S" -> decode_immediate_S(word)
      [] fmt = "B" -> decode_immediate_B(word)
      [] fmt = "U" -> decode_immediate_U(word)
      [] fmt = "J" -> decode_immediate_J(word)

InitDecode ==
    /\ regs = [i \in 0 .. 31 |-> {}]
    /\ pc = FromNat(4096)
    /\ insn = {}
    /\ prev = [regs |-> regs, pc |-> pc]
    /\ bus = NoBus
    /\ undet = NoUndet
    /\ raised = NoException
    /\ calls = 0
    /\ \E fmt \in {"I", "S", "B", "U", "J"} : \E v \in Representable(fmt) :
          dec = [fmt |-> fmt, v |-> v, word |-> {}, out |-> {}, stage |-> "value"]

EncodeStep ==
    /\ dec.stage = "value"
    /\ \E ones \in {0, 1} :
          dec' = [dec EXCEPT !.word = Encode(dec.fmt, dec.v, ones), !.stage = "encoded"]
    /\ UNCHANGED cpuvars

DecodeStep ==
    /\ dec.stage = "encoded"
    /\ dec' = [dec EXCEPT !.out = Decode(dec.fmt, dec.word), !.stage = "decoded"]
    /\ UNCHANGED cpuvars

NextDecode == EncodeStep \/ DecodeStep

SpecDecode == InitDecode /\ [][NextDecode]_vars

\* ------------------------------------------------------------------------
\* The RV64I reference the properties are stated against: the immediates by
\* their bit positions, the encodings that are reserved, the jump targets.
\* ------------------------------------------------------------------------

\* I: sext(insn[31:20])
IsaImmI(i) == SignExtend(Shr(i \cap (20 .. 31), 20), 12, 64)
\* S: sext(insn[31:25] || insn[11:7])
IsaImmS(i) == SignExtend(Shr(i \cap (25 .. 31), 20) \cup Shr(i \cap (7 .. 11), 7), 12, 64)
\* B: sext(insn[31] || insn[7] || insn[30:25] || insn[11:8] || 0)
IsaImmB(i) ==
    SignExtend(Shr(i \cap {31}, 19) \cup Shl(i \cap {7}, 4, 32) \cup Shr(i \cap (25 .. 30), 20)
                 \cup Shr(i \cap (8 .. 11), 7), 13, 64)
\* U: sext(insn[31:12] || 12'b0)
IsaImmU(i) == SignExtend(i \cap (12 .. 31), 32, 64)
\* J: sext(insn[31] || insn[19:12] || insn[20] || insn[30:21] || 0)
IsaImmJ(i) ==
    SignExtend(Shr(i \cap {31}, 11) \cup (i \cap (12 .. 19)) \cup Shr(i \cap {20}, 9)
                 \cup Shr(i \cap (21 .. 30), 20), 21, 64)

Four == FromNat(4)

\* The last call, decoded.
F == Fields(insn)
Called == calls > 0
\* The value register r must hold after a call that wrote v to it.
Written(r, v) == IF r = 0 THEN {} ELSE v

\* insn[31:26] and insn[31:25] of a shift by an immediate.
Hi6(i) == ToNat(Shr(i, 26))
Hi7(i) == ToNat(Shr(i, 25))

\* The words the ISA tables of the executor make IllegalInstruction.
IsaIllegal(i) ==
    LET f == Fields(i)
    IN  CASE f.opcode \in {OP_LUI, OP_AUIPC, OP_JAL} -> FALSE
          [] f.opcode = OP_JALR   -> f.funct3 # 0
          [] f.opcode = OP_BRANCH -> f.funct3 \in {2, 3}
          [] f.opcode = OP_LOAD   -> f.funct3 = 7
          [] f.opcode = OP_STORE  -> f.funct3 > 3
          [] f.opcode = OP_IMM    ->
                \/ f.funct3 = 1 /\ Hi6(i) # 0
                \/ f.funct3 = 5 /\ Hi6(i) \notin {0, 16}
          [] f.opcode = OP_OP     ->
                ~ (f.funct7 = 0 \/ (f.funct7 = 32 /\ f.funct3 \in {0, 5}))
          [] f.opcode = OP_IMM32  ->
                \/ f.funct3 \notin {0, 1, 5}
                \/ f.funct3 = 1 /\ Hi7(i) # 0
                \/ f.funct3 = 5 /\ Hi7(i) \notin {0, 32}
          [] f.opcode = OP_OP32   ->
                \/ f.funct3 \notin {0, 1, 5}
                \/ ~ (f.funct7 = 0 \/ (f.funct7 = 32 /\ f.funct3 \in {0, 5}))
          [] f.opcode = OP_MISC_MEM -> f.funct3 # 0
          [] f.opcode = OP_SYSTEM -> f.funct3 # 0 \/ IsaImmI(i) \notin {{}, FromNat(1)}
          [] OTHER -> TRUE

\* The branch predicates of the ISA.
IsaTaken(funct3, a, b) ==
    CASE funct3 = 0 -> a = b
      [] funct3 = 1 -> a # b
      [] funct3 = 4 -> SLt(a, b, 64)
      [] funct3 = 5 -> ~SLt(a, b, 64)
      [] funct3 = 6 -> ULt(a, b)
      [] funct3 = 7 -> ~ULt(a, b)
      [] OTHER -> FALSE

IsaJalTarget(c, i) == Add(c.pc, IsaImmJ(i), 64)
IsaJalrTarget(c, i) == Add(c.regs[Fields(i).rs1], IsaImmI(i), 64) \ {0}
IsaBranchTarget(c, i) == Add(c.pc, IsaImmB(i), 64)
IsaMisaligned(target) == (target \cap {0, 1}) # {}

\* A legal instruction that transfers control when run on hart state c, and
\* where to.
IsaJumps(c, i) ==
    LET f == Fields(i)
    IN  /\ ~IsaIllegal(i)
        /\ \/ f.opcode \in {OP_JAL, OP_JALR}
           \/ f.opcode = OP_BRANCH /\ IsaTaken(f.funct3, c.regs[f.rs1], c.regs[f.rs2])
IsaTarget(c, i) ==
    LET f == Fields(i)
    IN  CASE f.opcode = OP_JAL -> IsaJalTarget(c, i)
          [] f.opcode = OP_JALR -> IsaJalrTarget(c, i)
          [] OTHER -> IsaBranchTarget(c, i)

\* The calls for which the executor is to raise IllegalInstruction or
\* InstructionAddressMisaligned.
IsaFaults(c, i) ==
    IsaIllegal(i) \/ (IsaJumps(c, i) /\ IsaMisaligned(IsaTarget(c, i)))

\* ------------------------------------------------------------------------
\* Properties of exec32
\* ------------------------------------------------------------------------

\* C1: after every call of exec32, whatever the hart state and the instruction
\* word were, and so after every sequence of calls, x[0] is 0.
X0IsZero == Called => regs[0] = {}

\* C1 witness: the second call of a run was a LUI that names rd = 0 with an
\* immediate that is not 0, and x[0] is 0.
X0WriteSwallowed ==
    /\ calls = 2
    /\ F.opcode = OP_LUI /\ F.rd = 0 /\ decode_immediate_U(insn) # {}
    /\ regs[0] = {}

\* C2: a legal instruction that does not transfer control (OP, OP-IMM, OP-32,
\* OP-IMM-32, LUI, AUIPC, a load, a store, FENCE, a branch not taken) leaves
\* pc at the old pc plus 4, modulo 2^64.
PcAdvancesBy4 ==
    (Called /\ ~IsaIllegal(insn) /\ ~IsaJumps(prev, insn)
       /\ F.opcode \in {OP_OP, OP_IMM, OP_OP32, OP_IMM32, OP_LUI, OP_AUIPC, OP_LOAD,
                        OP_STORE, OP_MISC_MEM, OP_BRANCH})
    => pc = Add(prev.pc, Four, 64)

\* C2 witness: a branch that is not taken, run at pc = 0xFFFFFFFFFFFFFFFC, left
\* pc = 0: the advance wrapped.
PcAdvanceWrapped ==
    /\ Called /\ F.opcode = OP_BRANCH /\ ~IsaIllegal(insn) /\ ~IsaJumps(prev, insn)
    /\ prev.pc = 2 .. 63
    /\ pc = {}

\* C3: a call that is to raise an exception (an illegal encoding, or a JAL,
\* JALR or taken branch whose target is not 4-byte aligned) leaves pc as it
\* was.
FaultKeepsPc == (Called /\ IsaFaults(prev, insn)) => pc = prev.pc

\* C4: for an illegal encoding the call reports IllegalInstruction with the
\* instruction word.
IllegalIsReported ==
    (Called /\ IsaIllegal(insn)) => raised = [kind |-> "IllegalInstruction", value |-> insn]

\* C5: a call that is to raise an exception changes no register (x[0], which
\* the call zeroes in any case, left aside).
FaultKeepsRegs ==
    (Called /\ IsaFaults(prev, insn)) => \A r \in 1 .. 31 : regs[r] = prev.regs[r]

\* C7: LUI puts the U-immediate, insn[31:12] followed by twelve 0 bits and
\* sign-extended from bit 31, in x[rd], and advances pc by 4.
LuiLoadsUImmediate ==
    (Called /\ F.opcode = OP_LUI)
    => /\ regs[F.rd] = Written(F.rd, IsaImmU(insn))
       /\ pc = Add(prev.pc, Four, 64)

\* C8: JAL to an aligned target pc + J-imm puts the old pc + 4 in x[rd] and
\* the target in pc.
JalJumps ==
    (Called /\ F.opcode = OP_JAL /\ ~IsaMisaligned(IsaJalTarget(prev, insn)))
    => /\ regs[F.rd] = Written(F.rd, Add(prev.pc, Four, 64))
       /\ pc = IsaJalTarget(prev, insn)

\* C9: JALR (funct3 = 0) to an aligned target (x[rs1] + I-imm) & ~1, x[rs1]
\* read before rd is written, puts the old pc + 4 in x[rd] and the target in pc.
JalrJumps ==
    (Called /\ F.opcode = OP_JALR /\ F.funct3 = 0
       /\ ~IsaMisaligned(IsaJalrTarget(prev, insn)))
    => /\ regs[F.rd] = Written(F.rd, Add(prev.pc, Four, 64))
       /\ pc = IsaJalrTarget(prev, insn)


\* C6: for each of the five formats and every value v representable in it,
\* decoding the word that holds v in the format's immediate bits gives v.
DecoderRoundTrip == dec.stage = "decoded" => dec.out = dec.v

\* For the formats I, S and B the round trip does hold.
DecoderRoundTripISB ==
    (dec.stage = "decoded" /\ dec.fmt \in {"I", "S", "B"}) => dec.out = dec.v

\* C10: from a 4-byte aligned entry pc, pc is 4-byte aligned after every
\* sequence of calls of the executor; checked of r5.c's exec.
PcStaysAligned == (pc \cap {0, 1}) = {}

\* ------------------------------------------------------------------------
\* The RV64I reference of the integer operations: orderings and shifts
\* stated on the bits, apart from the operators the executor is built from.
\* ------------------------------------------------------------------------

\* The highest bit position of a non-empty word.
TopBit(w) == CHOOSE i \in w : \A j \in w : j <= i

\* a < b as unsigned integers.
IsaULt(a, b) == a # b /\ TopBit(Xor(a, b)) \in b
\* a < b as two's complement integers of 64 bits.
IsaSLt(a, b) ==
    CASE 63 \in a /\ 63 \notin b -> TRUE
      [] 63 \notin a /\ 63 \in b -> FALSE
      [] OTHER -> IsaULt(a, b)

\* The register value of a predicate: 1 or 0.
IsaFlag(p) == IF p THEN {0} ELSE {}

\* Bit i of the result is bit i + k of w; above the top there are 0 bits
\* (logical) or copies of bit n - 1 (arithmetic).
IsaSrl(w, k, n) == { i \in 0 .. n - 1 : i + k \in w /\ i + k <= n - 1 }
IsaSra(w, k, n) ==
    { i \in 0 .. n - 1 : IF i + k <= n - 1 THEN i + k \in w ELSE (n - 1) \in w }

\* The low 32 bits of w, and a 32-bit value sign-extended to 64 bits.
Lo32(w) == w \cap (0 .. 31)
Sext32(w) == IF 31 \in w THEN Lo32(w) \cup (32 .. 63) ELSE Lo32(w)

\* The operands of the last call.
A == prev.regs[F.rs1]
B == prev.regs[F.rs2]
\* The shift amounts a shift by an immediate encodes: insn[25:20], insn[24:20].
Shamt6(i) == ToNat(Shr(i, 20) \cap (0 .. 5))
Shamt5(i) == ToNat(Shr(i, 20) \cap (0 .. 4))

\* C11: OP-IMM with funct3 = 5 and shamt = insn[25:20] puts in x[rd] x[rs1]
\* shifted right by shamt, logically when insn[31:26] = 000000 (SRLI) and
\* arithmetically when insn[31:26] = 010000 (SRAI), and advances pc by 4.
ShiftRightImmediate ==
    (Called /\ F.opcode = OP_IMM /\ F.funct3 = 5 /\ Hi6(insn) \in {0, 16})
    => /\ regs[F.rd] = Written(F.rd, IF Hi6(insn) = 0
                                     THEN IsaSrl(A, Shamt6(insn), 64)
                                     ELSE IsaSra(A, Shamt6(insn), 64))
       /\ pc = Add(prev.pc, Four, 64)

\* The SRLI half of C11 does hold.
ShiftRightLogicalImmediate ==
    (Called /\ F.opcode = OP_IMM /\ F.funct3 = 5 /\ Hi6(insn) = 0)
    => regs[F.rd] = Written(F.rd, IsaSrl(A, Shamt6(insn), 64))

\* C12: SLT and SLTU (funct7 = 0) put 1 in x[rd] iff x[rs1] < x[rs2], signed
\* and unsigned; SLTI and SLTIU iff x[rs1] < I-imm, signed and unsigned; and
\* 0 otherwise.
SetLessThan ==
    /\ (Called /\ F.opcode = OP_OP /\ F.funct7 = 0 /\ F.funct3 = 2)
       => regs[F.rd] = Written(F.rd, IsaFlag(IsaSLt(A, B)))
    /\ (Called /\ F.opcode = OP_OP /\ F.funct7 = 0 /\ F.funct3 = 3)
       => regs[F.rd] = Written(F.rd, IsaFlag(IsaULt(A, B)))
    /\ (Called /\ F.opcode = OP_IMM /\ F.funct3 = 2)
       => regs[F.rd] = Written(F.rd, IsaFlag(IsaSLt(A, IsaImmI(insn))))
    /\ (Called /\ F.opcode = OP_IMM /\ F.funct3 = 3)
       => regs[F.rd] = Written(F.rd, IsaFlag(IsaULt(A, IsaImmI(insn))))

\* C12 witness: SLT of a negative x[rs1] and a positive x[rs2], where the
\* signed and the unsigned order differ, put 1 in x[rd].
SltOfNegative ==
    /\ Called /\ F.opcode = OP_OP /\ F.funct7 = 0 /\ F.funct3 = 2 /\ F.rd # 0
    /\ 63 \in A /\ 63 \notin B
    /\ regs[F.rd] = {0}

\* C13: ADDIW, ADDW and SUBW (funct7 = 0 and 0x20) put in x[rd] the low 32
\* bits of x[rs1] + I-imm, x[rs1] + x[rs2] and x[rs1] - x[rs2], sign-extended
\* from bit 31.
WordAddSub ==
    /\ (Called /\ F.opcode = OP_IMM32 /\ F.funct3 = 0)
       => regs[F.rd] = Written(F.rd, Sext32(Add(A, IsaImmI(insn), 64)))
    /\ (Called /\ F.opcode = OP_OP32 /\ F.funct3 = 0 /\ F.funct7 = 0)
       => regs[F.rd] = Written(F.rd, Sext32(Add(A, B, 64)))
    /\ (Called /\ F.opcode = OP_OP32 /\ F.funct3 = 0 /\ F.funct7 = 32)
       => regs[F.rd] = Written(F.rd, Sext32(Sub(A, B, 64)))

\* C13 witness: ADDW of 0x000000007FFFFFFF and 1 put 0xFFFFFFFF80000000 in
\* x[rd]: the sum overflowed 32 bits and was sign-extended.
AddwOverflowed ==
    /\ Called /\ F.opcode = OP_OP32 /\ F.funct3 = 0 /\ F.funct7 = 0 /\ F.rd # 0
    /\ A = 0 .. 30 /\ B = {0}
    /\ regs[F.rd] = 31 .. 63

\* C14: OP with funct3 = 5 and shamt = x[rs2] & 0x3F puts in x[rd] x[rs1]
\* shifted right by shamt, logically for funct7 = 0x00 (SRL) and
\* arithmetically for funct7 = 0x20 (SRA).
ShiftRightRegister ==
    (Called /\ F.opcode = OP_OP /\ F.funct3 = 5 /\ F.funct7 \in {0, 32})
    => regs[F.rd] = Written(F.rd, IF F.funct7 = 0
                                  THEN IsaSrl(A, ToNat(B \cap (0 .. 5)), 64)
                                  ELSE IsaSra(A, ToNat(B \cap (0 .. 5)), 64))

\* The SRL half of C14 does hold.
ShiftRightLogicalRegister ==
    (Called /\ F.opcode = OP_OP /\ F.funct3 = 5 /\ F.funct7 = 0)
    => regs[F.rd] = Written(F.rd, IsaSrl(A, ToNat(B \cap (0 .. 5)), 64))

\* C15: OP-IMM-32 with funct3 = 5 and shamt = insn[24:20] puts in x[rd] the
\* low 32 bits of x[rs1] shifted right by shamt and sign-extended from bit 31,
\* logically for insn[31:25] = 0000000 (SRLIW) and arithmetically for
\* insn[31:25] = 0100000 (SRAIW); with any other insn[31:25] it writes no
\* register.
ShiftRightImmediateWord ==
    (Called /\ F.opcode = OP_IMM32 /\ F.funct3 = 5)
    => CASE Hi7(insn) = 0 ->
                regs[F.rd] = Written(F.rd, Sext32(IsaSrl(Lo32(A), Shamt5(insn), 32)))
         [] Hi7(insn) = 32 ->
                regs[F.rd] = Written(F.rd, Sext32(IsaSra(Lo32(A), Shamt5(insn), 32)))
         [] OTHER -> \A r \in 1 .. 31 : regs[r] = prev.regs[r]

\* The SRLIW part of C15 does hold.
ShiftRightLogicalImmediateWord ==
    (Called /\ F.opcode = OP_IMM32 /\ F.funct3 = 5 /\ Hi7(insn) = 0)
    => regs[F.rd] = Written(F.rd, Sext32(IsaSrl(Lo32(A), Shamt5(insn), 32)))

\* The width in bits of the access a load or a store of funct3 makes.
IsaWidth(funct3) == CASE funct3 % 4 = 0 -> 8 [] funct3 % 4 = 1 -> 16
                      [] funct3 % 4 = 2 -> 32 [] OTHER -> 64

\* Every register is as the last call found it (x[0] is 0).
RegsKept == \A r \in 0 .. 31 : regs[r] = Written(r, prev.regs[r])

\* C16: a load (funct3 in 0 .. 6) reads the bus once, at the 64-bit address
\* x[rs1] + I-imm, and puts in x[rd] the 8, 16, 32 or 64 bits the bus holds
\* there: sign-extended for LB, LH, LW, zero-extended for LBU, LHU, LWU, all
\* 64 bits for LD.
LoadReadsBus ==
    (Called /\ F.opcode = OP_LOAD /\ F.funct3 # 7)
    => LET w == IsaWidth(F.funct3)
           held == undet.mem \cap (0 .. w - 1)
       IN  /\ bus.op = "load" /\ bus.width = w
           /\ bus.addr = Add(A, IsaImmI(insn), 64)
           /\ regs[F.rd] = Written(F.rd, IF F.funct3 < 4 /\ (w - 1) \in held
                                         THEN held \cup (w .. 63) ELSE held)

\* The byte loads, which take and return what the claim says, do hold.
LoadByteReadsBus ==
    (Called /\ F.opcode = OP_LOAD /\ F.funct3 \in {0, 4})
    => LET held == undet.mem \cap (0 .. 7)
       IN  /\ bus.op = "load" /\ bus.width = 8
           /\ bus.addr = Add(A, IsaImmI(insn), 64)
           /\ regs[F.rd] = Written(F.rd, IF F.funct3 = 0 /\ 7 \in held
                                         THEN held \cup (8 .. 63) ELSE held)

\* C17: a store (funct3 in 0 .. 3) gives the bus one store, at the address
\* x[rs1] + S-imm, of the low 8, 16, 32 or 64 bits of x[rs2]; it changes no
\* register and advances pc by 4.
StoreWritesBus ==
    (Called /\ F.opcode = OP_STORE /\ F.funct3 <= 3)
    => LET w == IsaWidth(F.funct3)
       IN  /\ bus = [op |-> "store", width |-> w, addr |-> Add(A, IsaImmS(insn), 64),
                      value |-> B \cap (0 .. w - 1)]
           /\ RegsKept
           /\ pc = Add(prev.pc, Four, 64)

\* SB, SH and SW do hold.
StoreNarrowWritesBus ==
    (Called /\ F.opcode = OP_STORE /\ F.funct3 <= 2)
    => LET w == IsaWidth(F.funct3)
       IN  /\ bus = [op |-> "store", width |-> w, addr |-> Add(A, IsaImmS(insn), 64),
                      value |-> B \cap (0 .. w - 1)]
           /\ RegsKept
           /\ pc = Add(prev.pc, Four, 64)

\* The predicate of a branch: BEQ, BNE, BLT, BGE (signed), BLTU, BGEU (unsigned).
IsaPredicate(funct3, a, b) ==
    CASE funct3 = 0 -> a = b
      [] funct3 = 1 -> a # b
      [] funct3 = 4 -> IsaSLt(a, b)
      [] funct3 = 5 -> ~IsaSLt(a, b)
      [] funct3 = 6 -> IsaULt(a, b)
      [] funct3 = 7 -> ~IsaULt(a, b)

\* C18: a branch with funct3 in {0, 1, 4, 5, 6, 7} whose predicate on x[rs1],
\* x[rs2] is true and whose target pc + B-imm is 4-byte aligned puts the
\* target in pc; one whose predicate is false advances pc by 4; neither
\* changes a register.
BranchTransfers ==
    (Called /\ F.opcode = OP_BRANCH /\ F.funct3 \notin {2, 3})
    => LET target == Add(prev.pc, IsaImmB(insn), 64)
       IN  IF IsaPredicate(F.funct3, A, B)
           THEN ~IsaMisaligned(target) => (pc = target /\ RegsKept)
           ELSE pc = Add(prev.pc, Four, 64) /\ RegsKept

\* C18 witness: BLT of a negative x[rs1] and a positive x[rs2], where the
\* signed and the unsigned order differ, went 16 bytes ahead.
BltTaken ==
    /\ Called /\ F.opcode = OP_BRANCH /\ F.funct3 = 4
    /\ 63 \in A /\ 63 \notin B
    /\ IsaImmB(insn) = {4}
    /\ pc = Add(prev.pc, {4}, 64)

\* C19: a branch word with funct3 = 2 or 3 is reported as
\* IllegalInstruction(insn), and control does not go to pc + B-imm.
ReservedBranchIsIllegal ==
    (Called /\ F.opcode = OP_BRANCH /\ F.funct3 \in {2, 3})
    => /\ raised = [kind |-> "IllegalInstruction", value |-> insn]
       /\ pc # Add(prev.pc, IsaImmB(insn), 64)

\* The second half of C19 alone: control does not go to pc + B-imm.
ReservedBranchNeverTaken ==
    (Called /\ F.opcode = OP_BRANCH /\ F.funct3 \in {2, 3})
    => pc # Add(prev.pc, IsaImmB(insn), 64)

\* C20: SYSTEM with funct3 = 0 reports EnvironmentCall for I-imm = 0 (ECALL)
\* and Breakpoint for I-imm = 1 (EBREAK); with any other I-imm, or funct3 not
\* 0, it reports IllegalInstruction.
SystemRaises ==
    (Called /\ F.opcode = OP_SYSTEM)
    => raised.kind = CASE F.funct3 = 0 /\ IsaImmI(insn) = {} -> "EnvironmentCall"
                       [] F.funct3 = 0 /\ IsaImmI(insn) = {0} -> "Breakpoint"
                       [] OTHER -> "IllegalInstruction"

\* C21: of the hart state, one call of exec32 changes at most x[rd], rd =
\* insn[11:7], and pc: every other register keeps its value (x[0], 0 in a
\* hart state, stays 0), and STORE, BRANCH, MISC-MEM and SYSTEM words change
\* no register.
FrameOfExec32 ==
    Called
    => /\ \A r \in (1 .. 31) \ {F.rd} : regs[r] = prev.regs[r]
       /\ (prev.regs[0] = {} /\ F.rd # 0) => regs[0] = prev.regs[0]
       /\ F.opcode \in {OP_STORE, OP_BRANCH, OP_MISC_MEM, OP_SYSTEM}
            => \A r \in 1 .. 31 : regs[r] = prev.regs[r]

\* C21 witness: an OP word with rd = 3 and rs1 = 1 gave x[3] a new value and
\* left x[1], which is not 0 and differs from that value, as it was.
OnlyRdWritten ==
    /\ Called /\ F.opcode = OP_OP /\ F.rd = 3 /\ F.rs1 = 1
    /\ regs[3] # prev.regs[3]
    /\ prev.regs[1] # {} /\ regs[1] = prev.regs[1] /\ regs[1] # regs[3]

====
